---- MODULE Spec2Model ----
(***************************************************************************)
(* Panel cutting optimizer (app/core/optimizer.py) as a state machine.     *)
(*                                                                         *)
(* Lengths are Python floats in millimetres.  The model counts them in     *)
(* 1/UnitsPerMm of a millimetre, so that fractional sizes exist and the    *)
(* int() truncation of _find_position is a real conversion.  Areas are     *)
(* products of such lengths and arithmetic is exact; a percentage is kept  *)
(* as the fraction [num, den] of which it is the hundredfold: its value is *)
(* 100 * num / den.                                                        *)
(*                                                                         *)
(* Every invocation of optimize owns its expanded list, its loop position  *)
(* and its board list; the model keeps them per run r \in Runs.            *)
(***************************************************************************)
EXTENDS Integers, Sequences, FiniteSets, TLC

----------------------------------------------------------------------------
(* Bounds of the model *)

UnitsPerMm == 2
MaxPanels == 2
MaxQuantity == 2
MaxCheckouts == 2

mm(n) == n * UnitsPerMm

(* n square millimetres *)
mm2(n) == n * UnitsPerMm * UnitsPerMm

Runs == {1, 2}

(* Panel sides: a narrow one, a fractional one, one larger than the board
   width; a short one and one as long as the longest board. *)
PanelWidths == {mm(7), mm(9) + 1, mm(35)}
PanelLengths == {mm(7), mm(35)}
Labels == {<<>>}

(* Optimizer configurations (DEFAULT_BOARD_WIDTH_MM, DEFAULT_BOARD_LENGTH_MM,
   DEFAULT_KERF_MM are read from the environment). *)
BoardWidths == {mm(30)}
BoardLengths == {mm(35) - 1, mm(35)}
Kerfs == {0, mm(3)}
(* Configurations the constructor also accepts. *)
AnyBoardWidths == {0, mm(30)}
AnyBoardLengths == {0 - mm(35), mm(35)}
AnyKerfs == {0 - mm(3), mm(3)}

(* Options.kerf of the request; <<>> is options = None. *)
RequestKerfs == {mm(10)}

(* The standard board and kerf, and the panel sizes of the scenarios. *)
ScenarioPanels == 10
StandardBoardWidth == mm(1220)
StandardBoardLength == mm(2440)
StandardKerf == mm(3)
ScenarioSizes == {<<mm(600), mm(400)>>, <<mm(1220), mm(2440)>>, <<mm(300), mm(300)>>}

----------------------------------------------------------------------------
(* Request schema *)

PanelDetail ==
    [width : PanelWidths, length : PanelLengths, quantity : 1..MaxQuantity,
     label : Labels]

Options == [kerf : RequestKerfs]

CuttingRequest ==
    [panels : UNION {[1..n -> PanelDetail] : n \in 0..MaxPanels},
     options : {<<>>} \cup {<<o>> : o \in Options}]

EmptyRequest == [panels |-> <<>>, options |-> <<>>]

(* n panels of one size, quantity 1 each. *)
SameSizeRequest(w, l, n) ==
    [panels |-> [i \in 1..n |-> [width |-> w, length |-> l, quantity |-> 1,
                                 label |-> <<>>]],
     options |-> <<>>]

ScenarioRequest ==
    {SameSizeRequest(d[1], d[2], n) : d \in ScenarioSizes, n \in 0..ScenarioPanels}

(* The requests of the second of two concurrent invocations. *)
OnePanelRequest ==
    [panels : UNION {[1..n -> [width : {mm(7), mm(35)}, length : {mm(7)},
                               quantity : 1..MaxQuantity, label : Labels]] :
                        n \in 0..1},
     options : {<<>>}]

(* Requests whose panels carry no label (None), an empty label or a
   label. *)
AnyLabels == {<<>>, <<"">>, <<"Door">>}

LabelledPanelDetail ==
    [width : {mm(7), mm(35)}, length : {mm(35)}, quantity : 1..MaxQuantity,
     label : AnyLabels]

LabelledRequest ==
    [panels : UNION {[1..n -> LabelledPanelDetail] : n \in 0..MaxPanels},
     options : {<<>>}]

(* Requests posted to process_optimization, and the board lengths it is
   configured with: one longer and one shorter than the board width. *)
PostedPanelDetail ==
    [width : {mm(7), mm(32)}, length : {mm(7), mm(25), mm(40)}, quantity : {1},
     label : Labels]

PostedRequest ==
    [panels : UNION {[1..n -> PostedPanelDetail] : n \in 0..MaxPanels},
     options : {<<>>}]

PostedBoardLengths == {mm(20), mm(35)}

(* SupplyMode after its validator: factory supply, or client supply with
   the number of boards the client brings. *)
SupplyMode ==
    {[client_supply |-> FALSE, client_board_qty |-> <<>>]}
    \cup {[client_supply |-> TRUE, client_board_qty |-> <<n>>] : n \in 1..MaxQuantity}

(* Requests posted to create_order. *)
OrderPanelDetail ==
    [width : {mm(7), mm(25), mm(32)}, length : {mm(35)}, quantity : 1..MaxQuantity,
     label : Labels]

OrderRequest ==
    [panels : [1..1 -> OrderPanelDetail], options : {<<>>}, supply : SupplyMode]

(* The request of the orders that are paid for: two panels that share a
   board, supplied by the factory. *)
PaymentRequest ==
    [panels |-> <<[width |-> mm(7), length |-> mm(35), quantity |-> 2,
                   label |-> <<>>]>>,
     options |-> <<>>,
     supply |-> [client_supply |-> FALSE, client_board_qty |-> <<>>]]

(* The bodies posted to /mpesa/stk-callback: <<>> is a body without
   ["Body"]["stkCallback"], <<stk>> one with it.  The CheckoutRequestIDs are
   those Daraja hands out, in the order it hands them out; ResultCode 0 is
   success, 1032 the customer's cancellation. *)
CheckoutIds == 1..MaxCheckouts

StkCallback == [CheckoutRequestID : CheckoutIds, ResultCode : {0, 1032}]

Payloads == {<<>>} \cup {<<stk>> : stk \in StkCallback}

ResultDesc(stk) ==
    IF stk.ResultCode = 0 THEN "The service request is processed successfully."
    ELSE "Request cancelled by user"

(* CallbackMetadata: MpesaReceiptNumber *)
MpesaReceiptNumber(stk) == <<"RCPT", stk.CheckoutRequestID>>

(* The requests of the specifications with two invocations. *)
SmallPanelDetail ==
    [width : {mm(7), mm(35)}, length : {mm(7)}, quantity : 1..MaxQuantity,
     label : Labels]

SmallCuttingRequest ==
    [panels : UNION {[1..n -> SmallPanelDetail] : n \in 0..MaxPanels},
     options : {<<>>}]

----------------------------------------------------------------------------
(* State *)

VARIABLES
    board_width,    \* self.board_width
    board_length,   \* self.board_length
    kerf,           \* self.kerf
    board_area,     \* self.board_area
    request,        \* request[r]: the CuttingRequest of run r
    pc,             \* pc[r]: position of run r in optimize
    expanded,       \* expanded[r]: the sorted candidate list
    cursor,         \* cursor[r]: index in expanded[r] of the next candidate
    boards,         \* boards[r]: the list of BoardLayout under construction
    summary,        \* summary[r]: <<>> or <<OptimizationSummary>>
    ORDER_STORE,    \* ORDER_STORE._orders: order id -> Order
    MPESA_CHECKOUT_TO_ORDER,  \* CheckoutRequestID -> order id
    background_tasks          \* the tasks added with add_task

vars == <<board_width, board_length, kerf, board_area, request, pc, expanded,
          cursor, boards, summary, ORDER_STORE, MPESA_CHECKOUT_TO_ORDER,
          background_tasks>>

config == <<board_width, board_length, kerf, board_area>>

(* The state of app/main.py and app/orders.py outside the optimizer *)
app == <<ORDER_STORE, MPESA_CHECKOUT_TO_ORDER, background_tasks>>

(* The module-level objects after import: an empty store, an empty map. *)
AppStart ==
    /\ ORDER_STORE = <<>>
    /\ MPESA_CHECKOUT_TO_ORDER = <<>>
    /\ background_tasks = {}

----------------------------------------------------------------------------
(* Arithmetic helpers *)

RECURSIVE SumSeq(_)
SumSeq(s) == IF s = <<>> THEN 0 ELSE Head(s) + SumSeq(Tail(s))

(* int(v): truncation toward zero to a whole number of millimetres. *)
PyInt(v) ==
    IF v >= 0 THEN (v \div UnitsPerMm) * UnitsPerMm
    ELSE 0 - (((0 - v) \div UnitsPerMm) * UnitsPerMm)

(* len(range(0, stop, st)): the values are 0, st, 2*st, ... below stop. *)
RangeLen(stop, st) == IF stop <= 0 THEN 0 ELSE ((stop - 1) \div st) + 1

(* used / area * 100 if area else 0 *)
Percent(used, area) ==
    IF area # 0 THEN [num |-> used, den |-> area]
    ELSE [num |-> 0, den |-> 1]

Min(S) == CHOOSE v \in S : \A u \in S : v <= u

(* sorted(S) for a set of numbers *)
RECURSIVE Sorted(_)
Sorted(S) == IF S = {} THEN <<>> ELSE <<Min(S)>> \o Sorted(S \ {Min(S)})

----------------------------------------------------------------------------
(* PanelOptimizer helpers *)

(* One candidate of _expand_panels for the panel at 0-based index idx. *)
(* p.label or f"Panel {idx + 1}": None and the empty string are falsy. *)
Falsy(label) == label = <<>> \/ label = <<"">>

(* Faulty variant of Candidate: the panel is turned by a quarter. *)
CandidateRotated(p, idx) ==
    [panel_index |-> idx,
     width |-> p.length,
     length |-> p.width,
     area |-> p.width * p.length,
     label |-> IF ~Falsy(p.label) THEN p.label ELSE <<"Panel", idx + 1>>]

Candidate(p, idx) ==
    [panel_index |-> idx,
     width |-> p.width,
     length |-> p.length,
     area |-> p.width * p.length,
     label |-> IF ~Falsy(p.label) THEN p.label ELSE <<"Panel", idx + 1>>]

RECURSIVE ExpandFrom(_, _)
ExpandFrom(panels, i) ==
    IF i > Len(panels) THEN <<>>
    ELSE [k \in 1..panels[i].quantity |-> Candidate(panels[i], i - 1)]
         \o ExpandFrom(panels, i + 1)

ExpandPanels(panels) == ExpandFrom(panels, 1)

(* Faulty variant of InsertByArea: an element goes in front of the earlier
   elements of the same area. *)
InsertByAreaBeforeTies(s, c) ==
    LET k == Cardinality({j \in 1..Len(s) : s[j].area > c.area})
    IN  SubSeq(s, 1, k) \o <<c>> \o SubSeq(s, k + 1, Len(s))

(* list.sort(key=area, reverse=True) is stable: an element goes after every
   earlier element whose area is not smaller. *)
InsertByArea(s, c) ==
    LET k == Cardinality({j \in 1..Len(s) : s[j].area >= c.area})
    IN  SubSeq(s, 1, k) \o <<c>> \o SubSeq(s, k + 1, Len(s))

RECURSIVE SortByAreaDesc(_)
SortByAreaDesc(s) ==
    IF s = <<>> THEN <<>>
    ELSE InsertByArea(SortByAreaDesc(SubSeq(s, 1, Len(s) - 1)), s[Len(s)])

step == 10 * UnitsPerMm

Efficiency(used_area) == Percent(used_area, board_area)

(* Faulty variant of CreateNewBoard: the first placement is not counted. *)
CreateNewBoardUncounted(panel, number) ==
    [board_number |-> number,
     board_width |-> board_width,
     board_length |-> board_length,
     used_area_mm2 |-> panel.area,
     waste_area_mm2 |-> board_area - panel.area,
     efficiency_percent |-> Efficiency(panel.area),
     panel_count |-> 0,
     panels |-> <<[panel_index |-> panel.panel_index, x |-> 0, y |-> 0,
                   width |-> panel.width, length |-> panel.length,
                   label |-> panel.label]>>,
     cuts |-> <<>>]

CreateNewBoard(panel, number) ==
    [board_number |-> number,
     board_width |-> board_width,
     board_length |-> board_length,
     used_area_mm2 |-> panel.area,
     waste_area_mm2 |-> board_area - panel.area,
     efficiency_percent |-> Efficiency(panel.area),
     panel_count |-> 1,
     panels |-> <<[panel_index |-> panel.panel_index, x |-> 0, y |-> 0,
                   width |-> panel.width, length |-> panel.length,
                   label |-> panel.label]>>,
     cuts |-> <<>>]

(* Faulty variant of Clear: the kerf is left out of the separation test. *)
ClearNoKerf(p, x, y, w, l) ==
    \/ x + w <= p.x
    \/ p.x + p.width <= x
    \/ y + l <= p.y
    \/ p.y + p.length <= y

(* Faulty variant of Clear: a gap of exactly the kerf is refused. *)
ClearStrict(p, x, y, w, l) ==
    \/ x + w + kerf < p.x
    \/ p.x + p.width + kerf < x
    \/ y + l + kerf < p.y
    \/ p.y + p.length + kerf < y

(* The kerf test of _can_place against one placed panel p. *)
Clear(p, x, y, w, l) ==
    \/ x + w + kerf <= p.x
    \/ p.x + p.width + kerf <= x
    \/ y + l + kerf <= p.y
    \/ p.y + p.length + kerf <= y

(* Faulty variant of CanPlace: the bounds test is left out. *)
CanPlaceNoBounds(board, x, y, w, l) ==
    \A i \in 1..Len(board.panels) : Clear(board.panels[i], x, y, w, l)

CanPlace(board, x, y, w, l) ==
    IF x + w > board_width \/ y + l > board_length THEN FALSE
    ELSE \A i \in 1..Len(board.panels) : Clear(board.panels[i], x, y, w, l)

(* Faulty variant of FindPosition: only the row y = 0 is scanned. *)
FindPositionFirstRow(board, panel) ==
    LET nx == RangeLen(PyInt(board_width - panel.width) + mm(1), step)
        Row(j) == {i \in 0..(nx - 1) :
                     CanPlace(board, i * step, j * step, panel.width, panel.length)}
    IN  IF board_length < panel.length \/ Row(0) = {} THEN <<>>
        ELSE <<Min(Row(0)) * step, 0>>

(* Faulty variant of FindPosition: the scan runs column by column. *)
FindPositionColumnMajor(board, panel) ==
    LET ny == RangeLen(PyInt(board_length - panel.length) + mm(1), step)
        nx == RangeLen(PyInt(board_width - panel.width) + mm(1), step)
        Col(i) == {j \in 0..(ny - 1) :
                     CanPlace(board, i * step, j * step, panel.width, panel.length)}
        cols == {i \in 0..(nx - 1) : Col(i) # {}}
    IN  IF cols = {} THEN <<>>
        ELSE <<Min(cols) * step, Min(Col(Min(cols))) * step>>

(* The raster scan: rows y = 0, step, ... and in each row x = 0, step, ...;
   the first feasible point in that order, <<>> for None. *)
FindPosition(board, panel) ==
    LET ny == RangeLen(PyInt(board_length - panel.length) + mm(1), step)
        nx == RangeLen(PyInt(board_width - panel.width) + mm(1), step)
        Row(j) == {i \in 0..(nx - 1) :
                     CanPlace(board, i * step, j * step, panel.width, panel.length)}
        rows == {j \in 0..(ny - 1) : Row(j) # {}}
    IN  IF rows = {} THEN <<>>
        ELSE <<Min(Row(Min(rows))) * step, Min(rows) * step>>

(* Faulty variant of PlacePanel: the position found is swapped, x for y. *)
PlacePanelTransposed(board, panel, x, y) ==
    LET used == board.used_area_mm2 + panel.area
    IN  [board EXCEPT
            !.panels = Append(@, [panel_index |-> panel.panel_index,
                                  x |-> y, y |-> x,
                                  width |-> panel.width, length |-> panel.length,
                                  label |-> panel.label]),
            !.panel_count = @ + 1,
            !.used_area_mm2 = used,
            !.waste_area_mm2 = board_area - used,
            !.efficiency_percent = Efficiency(used)]

(* Faulty variant of PlacePanel: waste_area_mm2 is not recomputed. *)
PlacePanelStaleWaste(board, panel, x, y) ==
    LET used == board.used_area_mm2 + panel.area
    IN  [board EXCEPT
            !.panels = Append(@, [panel_index |-> panel.panel_index,
                                  x |-> x, y |-> y,
                                  width |-> panel.width, length |-> panel.length,
                                  label |-> panel.label]),
            !.panel_count = @ + 1,
            !.used_area_mm2 = used,
            !.efficiency_percent = Efficiency(used)]

(* Faulty variant of PlacePanel: efficiency_percent is not recomputed. *)
PlacePanelStaleEfficiency(board, panel, x, y) ==
    LET used == board.used_area_mm2 + panel.area
    IN  [board EXCEPT
            !.panels = Append(@, [panel_index |-> panel.panel_index,
                                  x |-> x, y |-> y,
                                  width |-> panel.width, length |-> panel.length,
                                  label |-> panel.label]),
            !.panel_count = @ + 1,
            !.used_area_mm2 = used,
            !.waste_area_mm2 = board_area - used]

PlacePanel(board, panel, x, y) ==
    LET used == board.used_area_mm2 + panel.area
    IN  [board EXCEPT
            !.panels = Append(@, [panel_index |-> panel.panel_index,
                                  x |-> x, y |-> y,
                                  width |-> panel.width, length |-> panel.length,
                                  label |-> panel.label]),
            !.panel_count = @ + 1,
            !.used_area_mm2 = used,
            !.waste_area_mm2 = board_area - used,
            !.efficiency_percent = Efficiency(used)]

VerticalCut(id, x) ==
    [id |-> id, orientation |-> "V", x1 |-> x, y1 |-> 0, x2 |-> x,
     y2 |-> board_length, length |-> board_length]

(* Faulty variant of HorizontalCut: the length is the board length. *)
HorizontalCutBoardLength(id, y) ==
    [id |-> id, orientation |-> "H", x1 |-> 0, y1 |-> y, x2 |-> board_width,
     y2 |-> y, length |-> board_length]

HorizontalCut(id, y) ==
    [id |-> id, orientation |-> "H", x1 |-> 0, y1 |-> y, x2 |-> board_width,
     y2 |-> y, length |-> board_width]

(* Faulty variant of ComputeCutsForBoard: the horizontal cuts are emitted
   and numbered before the vertical ones. *)
ComputeCutsHorizontalFirst(board) ==
    LET ps == {board.panels[i] : i \in 1..Len(board.panels)}
        xs == Sorted({p.x : p \in ps} \cup {p.x + p.width : p \in ps})
        ys == Sorted({p.y : p \in ps} \cup {p.y + p.length : p \in ps})
        vx == SelectSeq(xs, LAMBDA x : 0 < x /\ x < board_width)
        hy == SelectSeq(ys, LAMBDA y : 0 < y /\ y < board_length)
    IN  [board EXCEPT !.cuts =
            [i \in 1..Len(hy) |-> HorizontalCut(i, hy[i])]
            \o [i \in 1..Len(vx) |-> VerticalCut(Len(hy) + i, vx[i])]]

(* Faulty variant of ComputeCutsForBoard: edges on the far board boundary
   are kept. *)
ComputeCutsWithBoardEdges(board) ==
    LET ps == {board.panels[i] : i \in 1..Len(board.panels)}
        xs == Sorted({p.x : p \in ps} \cup {p.x + p.width : p \in ps})
        ys == Sorted({p.y : p \in ps} \cup {p.y + p.length : p \in ps})
        vx == SelectSeq(xs, LAMBDA x : 0 < x /\ x <= board_width)
        hy == SelectSeq(ys, LAMBDA y : 0 < y /\ y <= board_length)
    IN  [board EXCEPT !.cuts =
            [i \in 1..Len(vx) |-> VerticalCut(i, vx[i])]
            \o [i \in 1..Len(hy) |-> HorizontalCut(Len(vx) + i, hy[i])]]

(* Faulty variant of ComputeCutsForBoard: only the left and top edges of the
   placements are collected. *)
ComputeCutsNearEdgesOnly(board) ==
    LET ps == {board.panels[i] : i \in 1..Len(board.panels)}
        xs == Sorted({p.x : p \in ps})
        ys == Sorted({p.y : p \in ps})
        vx == SelectSeq(xs, LAMBDA x : 0 < x /\ x < board_width)
        hy == SelectSeq(ys, LAMBDA y : 0 < y /\ y < board_length)
    IN  [board EXCEPT !.cuts =
            [i \in 1..Len(vx) |-> VerticalCut(i, vx[i])]
            \o [i \in 1..Len(hy) |-> HorizontalCut(Len(vx) + i, hy[i])]]

ComputeCutsForBoard(board) ==
    LET ps == {board.panels[i] : i \in 1..Len(board.panels)}
        xs == Sorted({p.x : p \in ps} \cup {p.x + p.width : p \in ps})
        ys == Sorted({p.y : p \in ps} \cup {p.y + p.length : p \in ps})
        vx == SelectSeq(xs, LAMBDA x : 0 < x /\ x < board_width)
        hy == SelectSeq(ys, LAMBDA y : 0 < y /\ y < board_length)
    IN  [board EXCEPT !.cuts =
            [i \in 1..Len(vx) |-> VerticalCut(i, vx[i])]
            \o [i \in 1..Len(hy) |-> HorizontalCut(Len(vx) + i, hy[i])]]

(* Faulty variant of WastePercent: the division is not guarded; den = 0 is
   the division fault. *)
WastePercentUnguarded(total_waste, total_board_area) ==
    [num |-> total_waste, den |-> total_board_area]

WastePercent(total_waste, total_board_area) ==
    IF total_board_area # 0 THEN [num |-> total_waste, den |-> total_board_area]
    ELSE [num |-> 0, den |-> 1]

(* Faulty variant of Summarize: the waste total sums the used areas. *)
SummarizeUsedAsWaste(req, bs) ==
    LET total_waste == SumSeq([i \in 1..Len(bs) |-> bs[i].used_area_mm2])
        total_board_area == Len(bs) * board_area
    IN  [total_boards |-> Len(bs),
         total_panels |-> SumSeq([i \in 1..Len(req.panels) |-> req.panels[i].quantity]),
         unique_panel_types |-> Len(req.panels),
         total_edging_meters |-> 0,
         total_cuts |-> SumSeq([i \in 1..Len(bs) |-> Len(bs[i].cuts)]),
         total_cut_length |->
            SumSeq([i \in 1..Len(bs) |->
                      SumSeq([j \in 1..Len(bs[i].cuts) |-> bs[i].cuts[j].length])]),
         total_waste_mm2 |-> total_waste,
         total_waste_percent |-> WastePercent(total_waste, total_board_area),
         board_width |-> board_width,
         board_length |-> board_length]

Summarize(req, bs) ==
    LET total_waste == SumSeq([i \in 1..Len(bs) |-> bs[i].waste_area_mm2])
        total_board_area == Len(bs) * board_area
    IN  [total_boards |-> Len(bs),
         total_panels |-> SumSeq([i \in 1..Len(req.panels) |-> req.panels[i].quantity]),
         unique_panel_types |-> Len(req.panels),
         total_edging_meters |-> 0,
         total_cuts |-> SumSeq([i \in 1..Len(bs) |-> Len(bs[i].cuts)]),
         total_cut_length |->
            SumSeq([i \in 1..Len(bs) |->
                      SumSeq([j \in 1..Len(bs[i].cuts) |-> bs[i].cuts[j].length])]),
         total_waste_mm2 |-> total_waste,
         total_waste_percent |-> WastePercent(total_waste, total_board_area),
         board_width |-> board_width,
         board_length |-> board_length]

----------------------------------------------------------------------------
(* PanelOptimizer.optimize, one step per loop iteration *)

(* for board in boards: the boards on which _find_position returns a position *)
Admitting(bs, panel) == {b \in 1..Len(bs) : FindPosition(bs[b], panel) # <<>>}

(* Faulty variant of PlaceOnFirst: the loop over the boards does not break,
   the candidate goes on every admitting board. *)
PlaceOnEvery(bs, panel) ==
    [b \in 1..Len(bs) |->
        IF b \in Admitting(bs, panel)
        THEN PlacePanel(bs[b], panel, FindPosition(bs[b], panel)[1],
                        FindPosition(bs[b], panel)[2])
        ELSE bs[b]]

(* Faulty variant of PlaceOnFirst: the candidate goes on the last admitting
   board. *)
PlaceOnLast(bs, panel) ==
    LET b == CHOOSE a \in Admitting(bs, panel) :
                 \A o \in Admitting(bs, panel) : o <= a
        pos == FindPosition(bs[b], panel)
    IN  [bs EXCEPT ![b] = PlacePanel(bs[b], panel, pos[1], pos[2])]

(* The candidate goes on the first admitting board, at the position found. *)
PlaceOnFirst(bs, panel) ==
    LET b == Min(Admitting(bs, panel))
        pos == FindPosition(bs[b], panel)
    IN  [bs EXCEPT ![b] = PlacePanel(bs[b], panel, pos[1], pos[2])]

(* Faulty variant of NewBoardNumber: the boards are numbered by a counter
   that all invocations share. *)
SharedBoardNumber(r) == SumSeq([q \in Runs |-> Len(boards[q])]) + 1

(* len(boards) + 1, the number given to a board opened by run r *)
NewBoardNumber(r) == Len(boards[r]) + 1

(* Faulty variant of PanelOptimizerInit: board_area is the square of the
   width. *)
PanelOptimizerInitSquare(bw, bl, k) ==
    /\ board_width = bw
    /\ board_length = bl
    /\ kerf = k
    /\ board_area = bw * bw

(* PanelOptimizer.__init__ *)
PanelOptimizerInit(bw, bl, k) ==
    /\ board_width = bw
    /\ board_length = bl
    /\ kerf = k
    /\ board_area = bw * bl

(* Run r is about to call optimize(reqs[r]); a run outside active never runs. *)
Calls(reqs, active) ==
    /\ request = reqs
    /\ pc = [r \in Runs |-> IF r \in active THEN "start" ELSE "idle"]
    /\ expanded = [r \in Runs |-> <<>>]
    /\ cursor = [r \in Runs |-> 1]
    /\ boards = [r \in Runs |-> <<>>]
    /\ summary = [r \in Runs |-> <<>>]

(* Faulty variant of ExpandAndSort: the expanded list is one list that all
   invocations share. *)
ExpandAndSortShared(r) ==
    /\ pc[r] = "start"
    /\ expanded' = [q \in Runs |-> SortByAreaDesc(ExpandPanels(request[r].panels))]
    /\ pc' = [pc EXCEPT ![r] = "pack"]
    /\ UNCHANGED <<config, app, request, cursor, boards, summary>>

ExpandAndSort(r) ==
    /\ pc[r] = "start"
    /\ expanded' = [expanded EXCEPT ![r] = SortByAreaDesc(ExpandPanels(request[r].panels))]
    /\ pc' = [pc EXCEPT ![r] = "pack"]
    /\ UNCHANGED <<config, app, request, cursor, boards, summary>>

PlaceCandidate(r) ==
    /\ pc[r] = "pack"
    /\ cursor[r] <= Len(expanded[r])
    /\ Admitting(boards[r], expanded[r][cursor[r]]) # {}
    /\ boards' = [boards EXCEPT ![r] = PlaceOnFirst(@, expanded[r][cursor[r]])]
    /\ cursor' = [cursor EXCEPT ![r] = @ + 1]
    /\ UNCHANGED <<config, app, request, pc, expanded, summary>>

(* Faulty variant of OpenBoard: a candidate that is wider or longer than the
   board is skipped instead of being given a board. *)
OpenBoardIfFits(r) ==
    LET panel == expanded[r][cursor[r]]
    IN  /\ pc[r] = "pack"
        /\ cursor[r] <= Len(expanded[r])
        /\ Admitting(boards[r], panel) = {}
        /\ boards' = [boards EXCEPT ![r] =
                        IF panel.width > board_width \/ panel.length > board_length
                        THEN @
                        ELSE Append(@, CreateNewBoard(panel, Len(@) + 1))]
        /\ cursor' = [cursor EXCEPT ![r] = @ + 1]
        /\ UNCHANGED <<config, app, request, pc, expanded, summary>>

OpenBoard(r) ==
    /\ pc[r] = "pack"
    /\ cursor[r] <= Len(expanded[r])
    /\ Admitting(boards[r], expanded[r][cursor[r]]) = {}
    /\ boards' = [boards EXCEPT ![r] =
                    Append(@, CreateNewBoard(expanded[r][cursor[r]], NewBoardNumber(r)))]
    /\ cursor' = [cursor EXCEPT ![r] = @ + 1]
    /\ UNCHANGED <<config, app, request, pc, expanded, summary>>

ComputeCuts(r) ==
    /\ pc[r] = "pack"
    /\ cursor[r] > Len(expanded[r])
    /\ boards' = [boards EXCEPT ![r] =
                    [b \in 1..Len(@) |-> ComputeCutsForBoard(@[b])]]
    /\ pc' = [pc EXCEPT ![r] = "stats"]
    /\ UNCHANGED <<config, app, request, expanded, cursor, summary>>

Return(r) ==
    /\ pc[r] = "stats"
    /\ summary' = [summary EXCEPT ![r] = <<Summarize(request[r], boards[r])>>]
    /\ pc' = [pc EXCEPT ![r] = "done"]
    /\ UNCHANGED <<config, app, request, expanded, cursor, boards>>

Expand == \E r \in Runs : ExpandAndSort(r)
Place == \E r \in Runs : PlaceCandidate(r)
Open == \E r \in Runs : OpenBoard(r)
Cuts == \E r \in Runs : ComputeCuts(r)
Finish == \E r \in Runs : Return(r)

Next == Expand \/ Place \/ Open \/ Cuts \/ Finish

(* One invocation, on a configuration with positive board sides and a kerf
   that is not negative. *)
Init ==
    /\ AppStart
    /\ \E bw \in BoardWidths, bl \in BoardLengths, k \in Kerfs :
          PanelOptimizerInit(bw, bl, k)
    /\ \E req \in CuttingRequest :
          Calls([r \in Runs |-> IF r = 1 THEN req ELSE EmptyRequest], {1})

Spec == Init /\ [][Next]_vars

(* One invocation, on any configuration the constructor accepts. *)
InitAnyConfig ==
    /\ AppStart
    /\ \E bw \in AnyBoardWidths, bl \in AnyBoardLengths, k \in AnyKerfs :
          PanelOptimizerInit(bw, bl, k)
    /\ \E req \in CuttingRequest :
          Calls([r \in Runs |-> IF r = 1 THEN req ELSE EmptyRequest], {1})

SpecAnyConfig == InitAnyConfig /\ [][Next]_vars

(* Two invocations of optimize on the same request, their steps interleaved. *)
InitTwoRuns ==
    /\ AppStart
    /\ \E bw \in BoardWidths, bl \in BoardLengths, k \in Kerfs :
          PanelOptimizerInit(bw, bl, k)
    /\ \E req \in SmallCuttingRequest : Calls([r \in Runs |-> req], Runs)

SpecTwoRuns == InitTwoRuns /\ [][Next]_vars

(* One invocation on the standard board, for n panels of one size. *)
InitScenarios ==
    /\ AppStart
    /\ PanelOptimizerInit(StandardBoardWidth, StandardBoardLength, StandardKerf)
    /\ \E req \in ScenarioRequest :
          Calls([r \in Runs |-> IF r = 1 THEN req ELSE EmptyRequest], {1})

SpecScenarios == InitScenarios /\ [][Next]_vars

(* Two invocations of optimize_cutting on requests of their own, their steps
   interleaved. *)
InitConcurrent ==
    /\ AppStart
    /\ \E bw \in BoardWidths, bl \in BoardLengths, k \in Kerfs :
          PanelOptimizerInit(bw, bl, k)
    /\ \E req1 \in SmallCuttingRequest, req2 \in OnePanelRequest :
          Calls([r \in Runs |-> IF r = 1 THEN req1 ELSE req2], Runs)

SpecConcurrent == InitConcurrent /\ [][Next]_vars

(* One invocation on a request with labelled and unlabelled panels. *)
InitLabelled ==
    /\ AppStart
    /\ \E bw \in BoardWidths, bl \in BoardLengths, k \in Kerfs :
          PanelOptimizerInit(bw, bl, k)
    /\ \E req \in LabelledRequest :
          Calls([r \in Runs |-> IF r = 1 THEN req ELSE EmptyRequest], {1})

SpecLabelled == InitLabelled /\ [][Next]_vars

----------------------------------------------------------------------------
(* process_optimization (app/main.py): the size validation in front of
   optimize_cutting.  pc[r] = "received" on entry, "raised400" after
   raise HTTPException(400, msg). *)

TooWide(p) == p.width > board_width /\ p.length > board_width
TooLong(p) == p.width > board_length /\ p.length > board_length

(* Faulty variant of SizeValidationFails: the second test is missing. *)
SizeValidationWidthOnly(req) ==
    \E i \in 1..Len(req.panels) : TooWide(req.panels[i])

(* Some panel of the request raises in the size validation loop. *)
SizeValidationFails(req) ==
    \E i \in 1..Len(req.panels) : TooWide(req.panels[i]) \/ TooLong(req.panels[i])

RaiseHTTP400(r) ==
    /\ pc[r] = "received"
    /\ SizeValidationFails(request[r])
    /\ pc' = [pc EXCEPT ![r] = "raised400"]
    /\ UNCHANGED <<config, app, request, expanded, cursor, boards, summary>>

CallOptimizeCutting(r) ==
    /\ pc[r] = "received"
    /\ ~SizeValidationFails(request[r])
    /\ pc' = [pc EXCEPT ![r] = "start"]
    /\ UNCHANGED <<config, app, request, expanded, cursor, boards, summary>>

Reject == \E r \in Runs : RaiseHTTP400(r)
Accept == \E r \in Runs : CallOptimizeCutting(r)

NextPosted == Reject \/ Accept \/ Expand \/ Place \/ Open \/ Cuts \/ Finish

(* One request posted to process_optimization. *)
InitPosted ==
    /\ AppStart
    /\ \E bw \in BoardWidths, bl \in PostedBoardLengths :
          PanelOptimizerInit(bw, bl, StandardKerf)
    /\ \E req \in PostedRequest :
          /\ request = [r \in Runs |-> IF r = 1 THEN req ELSE EmptyRequest]
          /\ pc = [r \in Runs |-> IF r = 1 THEN "received" ELSE "idle"]
          /\ expanded = [r \in Runs |-> <<>>]
          /\ cursor = [r \in Runs |-> 1]
          /\ boards = [r \in Runs |-> <<>>]
          /\ summary = [r \in Runs |-> <<>>]

SpecPosted == InitPosted /\ [][NextPosted]_vars

(* optimize run from start to end with nothing else running: the boards
   after the packing loop over the candidates from index i on. *)
RECURSIVE PackFrom(_, _, _)
PackFrom(cands, i, bs) ==
    IF i > Len(cands) THEN bs
    ELSE PackFrom(cands, i + 1,
                  IF Admitting(bs, cands[i]) # {}
                  THEN PlaceOnFirst(bs, cands[i])
                  ELSE Append(bs, CreateNewBoard(cands[i], Len(bs) + 1)))

OptimizeAlone(req) ==
    LET packed == PackFrom(SortByAreaDesc(ExpandPanels(req.panels)), 1, <<>>)
        bs == [b \in 1..Len(packed) |-> ComputeCutsForBoard(packed[b])]
    IN  [boards |-> bs, summary |-> Summarize(req, bs)]

----------------------------------------------------------------------------
(* create_order (app/main.py) and OrderStore (app/orders.py).  Run r is one
   call of create_order: it goes through process_optimization and, when that
   returns, stores the order.  pc[r] = "created" after the order is stored. *)

(* dict[k] = v *)
Put(f, k, v) == [x \in DOMAIN f \cup {k} |-> IF x = k THEN v ELSE f[x]]

(* report_id, "RPT-<date>-<uuid>": one fresh identifier per call *)
ReportId(r) == <<"RPT", r>>

(* supplied = request.supply.client_board_qty or 0 *)
SuppliedBoards(req) ==
    IF req.supply.client_board_qty = <<>> THEN 0 ELSE req.supply.client_board_qty[1]

(* The client supply sufficiency test of process_optimization *)
ClientBoardsShort(r) ==
    /\ request[r].supply.client_supply
    /\ SuppliedBoards(request[r]) < summary[r][1].total_boards

(* Order(id=..., request=..., result=...) with its defaults *)
NewOrder(r) ==
    [id |-> ReportId(r), request |-> request[r],
     boards_required |-> summary[r][1].total_boards,
     status |-> "pending", mpesa_receipt |-> <<>>, status_reason |-> <<>>]

RaiseInsufficientBoards(r) ==
    /\ pc[r] = "done"
    /\ ClientBoardsShort(r)
    /\ pc' = [pc EXCEPT ![r] = "raised400"]
    /\ UNCHANGED <<config, app, request, expanded, cursor, boards, summary>>

(* Faulty variant of StoreOrder: the order is stored whatever
   process_optimization answers. *)
StoreOrderUnchecked(r) ==
    /\ pc[r] = "done"
    /\ ORDER_STORE' = Put(ORDER_STORE, ReportId(r), NewOrder(r))
    /\ background_tasks' =
          background_tasks \cup {<<"send_invoice_for_order", ReportId(r)>>}
    /\ pc' = [pc EXCEPT ![r] = "created"]
    /\ UNCHANGED <<config, request, expanded, cursor, boards, summary,
                   MPESA_CHECKOUT_TO_ORDER>>

(* process_optimization returns its response; create_order stores the order
   and adds the invoice task. *)
StoreOrder(r) ==
    /\ pc[r] = "done"
    /\ ~ClientBoardsShort(r)
    /\ ORDER_STORE' = Put(ORDER_STORE, ReportId(r), NewOrder(r))
    /\ background_tasks' =
          background_tasks \cup {<<"send_invoice_for_order", ReportId(r)>>}
    /\ pc' = [pc EXCEPT ![r] = "created"]
    /\ UNCHANGED <<config, request, expanded, cursor, boards, summary,
                   MPESA_CHECKOUT_TO_ORDER>>

Insufficient == \E r \in Runs : RaiseInsufficientBoards(r)
Store == \E r \in Runs : StoreOrder(r)

NextOrders ==
    \/ Reject \/ Accept \/ Expand \/ Place \/ Open \/ Cuts \/ Finish
    \/ Insufficient \/ Store

(* Two calls of create_order, their steps interleaved. *)
InitOrders ==
    /\ AppStart
    /\ PanelOptimizerInit(mm(30), mm(35), StandardKerf)
    /\ \E req1 \in OrderRequest, req2 \in OrderRequest :
          /\ request = [r \in Runs |-> IF r = 1 THEN req1 ELSE req2]
          /\ pc = [r \in Runs |-> "received"]
          /\ expanded = [r \in Runs |-> <<>>]
          /\ cursor = [r \in Runs |-> 1]
          /\ boards = [r \in Runs |-> <<>>]
          /\ summary = [r \in Runs |-> <<>>]

SpecOrders == InitOrders /\ [][NextOrders]_vars

----------------------------------------------------------------------------
(* mpesa_initiate, mpesa_stk_callback, notify_after_payment (app/main.py) and
   OrderStore.mark_paid, mark_failed (app/orders.py).  A call that raises
   (404 for an unknown order, 502 for a failed push, 400 for an unpaid
   order) changes nothing of the state kept here. *)

OrderIds == {ReportId(r) : r \in Runs}

(* OrderStore.mark_paid *)
MarkPaid(store, order_id, receipt) ==
    IF order_id \notin DOMAIN store THEN store
    ELSE [store EXCEPT ![order_id].status = "paid",
                       ![order_id].mpesa_receipt = <<receipt>>,
                       ![order_id].status_reason = <<>>]

(* Faulty variant of MarkFailed: every order of the store is marked. *)
MarkFailedAll(store, order_id, reason) ==
    [o \in DOMAIN store |->
        [store[o] EXCEPT !.status = "failed", !.status_reason = <<reason>>]]

(* OrderStore.mark_failed *)
MarkFailed(store, order_id, reason) ==
    IF order_id \notin DOMAIN store THEN store
    ELSE [store EXCEPT ![order_id].status = "failed",
                       ![order_id].status_reason = <<reason>>]

(* mpesa_initiate for a stored order: initiate_stk_push gets a new
   CheckoutRequestID from Daraja and registers it for the order. *)
MpesaInitiate(order_id) ==
    /\ order_id \in DOMAIN ORDER_STORE
    /\ Len(MPESA_CHECKOUT_TO_ORDER) < MaxCheckouts
    /\ MPESA_CHECKOUT_TO_ORDER' = Append(MPESA_CHECKOUT_TO_ORDER, order_id)
    /\ UNCHANGED <<config, request, pc, expanded, cursor, boards, summary,
                   ORDER_STORE, background_tasks>>

MpesaStkCallback(payload) ==
    /\ ORDER_STORE' =
          IF payload = <<>> THEN ORDER_STORE
          ELSE LET stk == payload[1]
               IN  IF stk.CheckoutRequestID \notin DOMAIN MPESA_CHECKOUT_TO_ORDER
                   THEN ORDER_STORE
                   ELSE IF stk.ResultCode # 0
                   THEN MarkFailed(ORDER_STORE,
                                   MPESA_CHECKOUT_TO_ORDER[stk.CheckoutRequestID],
                                   ResultDesc(stk))
                   ELSE MarkPaid(ORDER_STORE,
                                 MPESA_CHECKOUT_TO_ORDER[stk.CheckoutRequestID],
                                 MpesaReceiptNumber(stk))
    /\ UNCHANGED <<config, request, pc, expanded, cursor, boards, summary,
                   MPESA_CHECKOUT_TO_ORDER, background_tasks>>

(* notify_after_payment accepts the call: the order exists and is paid. *)
NotifyAccepted(order_id) ==
    /\ order_id \in DOMAIN ORDER_STORE
    /\ ORDER_STORE[order_id].status = "paid"

NotifyAfterPayment(order_id) ==
    /\ NotifyAccepted(order_id)
    /\ background_tasks' =
          background_tasks \cup {<<"send_notifications_for_order", order_id>>}
    /\ UNCHANGED <<config, request, pc, expanded, cursor, boards, summary,
                   ORDER_STORE, MPESA_CHECKOUT_TO_ORDER>>

Initiate == \E o \in OrderIds : MpesaInitiate(o)
Callback == \E payload \in Payloads : MpesaStkCallback(payload)
Notify == \E o \in OrderIds : NotifyAfterPayment(o)

NextPayments ==
    \/ Accept \/ Expand \/ Place \/ Open \/ Cuts \/ Finish \/ Store
    \/ Initiate \/ Callback \/ Notify

(* Two calls of create_order, followed by payments in any order. *)
InitPayments ==
    /\ AppStart
    /\ PanelOptimizerInit(mm(30), mm(35), StandardKerf)
    /\ request = [r \in Runs |-> PaymentRequest]
    /\ pc = [r \in Runs |-> "received"]
    /\ expanded = [r \in Runs |-> <<>>]
    /\ cursor = [r \in Runs |-> 1]
    /\ boards = [r \in Runs |-> <<>>]
    /\ summary = [r \in Runs |-> <<>>]

SpecPayments == InitPayments /\ [][NextPayments]_vars

----------------------------------------------------------------------------
(* Vocabulary of the properties *)

BoardIds(r) == 1..Len(boards[r])

Rect(p) == [x1 |-> p.x, y1 |-> p.y, x2 |-> p.x + p.width, y2 |-> p.y + p.length]

Grow(c, k) == [x1 |-> c.x1 - k, y1 |-> c.y1 - k, x2 |-> c.x2 + k, y2 |-> c.y2 + k]

NoCommonInterior(a, b) ==
    a.x2 <= b.x1 \/ b.x2 <= a.x1 \/ a.y2 <= b.y1 \/ b.y2 <= a.y1

InBounds(p) ==
    p.x >= 0 /\ p.y >= 0 /\ p.x + p.width <= board_width
    /\ p.y + p.length <= board_length

Oversized(p) == p.width > board_width \/ p.length > board_length

AllFit(r) ==
    \A i \in 1..Len(request[r].panels) : ~Oversized(request[r].panels[i])

PlacementCount(r) == SumSeq([b \in BoardIds(r) |-> Len(boards[r][b].panels)])

TotalQuantity(r) ==
    SumSeq([i \in 1..Len(request[r].panels) |-> request[r].panels[i].quantity])

(* Some board of run r holds two placements whose gap is below g on both axes. *)
CloserThan(r, g) ==
    \E b \in BoardIds(r) : \E i, j \in 1..Len(boards[r][b].panels) :
        /\ i # j
        /\ ~NoCommonInterior(Grow(Rect(boards[r][b].panels[i]), g),
                             Rect(boards[r][b].panels[j]))

----------------------------------------------------------------------------
(* C1 as stated: after optimize returns, no two distinct placements on the
   same board have kerf-expanded rectangles (each expanded by the kerf on all
   four sides) with a common interior. *)
C1_BothExpandedDisjoint ==
    \A r \in Runs : pc[r] = "done" =>
        \A b \in BoardIds(r) : \A i, j \in 1..Len(boards[r][b].panels) :
            i # j => NoCommonInterior(Grow(Rect(boards[r][b].panels[i]), kerf),
                                      Grow(Rect(boards[r][b].panels[j]), kerf))

(* C1 amended: after optimize returns, for any two distinct placements on the
   same board the rectangle of one, expanded by the kerf on all four sides,
   has no common interior with the unexpanded rectangle of the other: the
   two are at least one kerf apart on some axis. *)
C1_KerfSeparated ==
    \A r \in Runs : pc[r] = "done" =>
        \A b \in BoardIds(r) : \A i, j \in 1..Len(boards[r][b].panels) :
            i # j => NoCommonInterior(Grow(Rect(boards[r][b].panels[i]), kerf),
                                      Rect(boards[r][b].panels[j]))

(* optimize has returned a board with two placements less than two kerfs
   apart, under a positive kerf. *)
C1_Witness ==
    \E r \in Runs : pc[r] = "done" /\ kerf > 0 /\ CloserThan(r, 2 * kerf)

(* C2 as stated: in every state every placement on every board lies fully
   within the board bounds. *)
C2_AllInBounds ==
    \A r \in Runs : \A b \in BoardIds(r) : \A i \in 1..Len(boards[r][b].panels) :
        InBounds(boards[r][b].panels[i])

(* C2 amended: every placement lies fully within the board bounds, except a
   board's first placement when its candidate is wider or longer than the
   board; that one sits at the origin. *)
C2_InBoundsUnlessFirstOversized ==
    \A r \in Runs : \A b \in BoardIds(r) : \A i \in 1..Len(boards[r][b].panels) :
        LET p == boards[r][b].panels[i]
        IN  InBounds(p) \/ (i = 1 /\ p.x = 0 /\ p.y = 0 /\ Oversized(p))

(* A board opened for an oversized candidate has received a later placement. *)
C2_Witness ==
    \E r \in Runs : \E b \in BoardIds(r) :
        /\ Oversized(boards[r][b].panels[1])
        /\ Len(boards[r][b].panels) >= 2
        /\ InBounds(boards[r][b].panels[2])

(* C3: in every state, on every board, used_area + waste_area equals
   board_width * board_length. *)
C3_AreaIdentity ==
    \A r \in Runs : \A b \in BoardIds(r) :
        boards[r][b].used_area_mm2 + boards[r][b].waste_area_mm2
            = boards[r][b].board_width * boards[r][b].board_length

(* During packing: one board was opened by the oversized fallback and has a
   negative waste, another has received a later placement. *)
C3_Witness ==
    \E r \in Runs :
        /\ pc[r] = "pack"
        /\ \E b \in BoardIds(r) :
              Oversized(boards[r][b].panels[1]) /\ boards[r][b].waste_area_mm2 < 0
        /\ \E b \in BoardIds(r) : boards[r][b].panel_count >= 2

(* C4: after optimize returns, the number of placements over all boards
   equals the sum of the input quantities. *)
C4_EveryCandidatePlacedOnce ==
    \A r \in Runs : pc[r] = "done" => PlacementCount(r) = TotalQuantity(r)

(* optimize has returned several boards, one of them with several placements. *)
C4_Witness ==
    \E r \in Runs :
        /\ pc[r] = "done"
        /\ Len(boards[r]) >= 2
        /\ TotalQuantity(r) >= 3
        /\ \E b \in BoardIds(r) : Len(boards[r][b].panels) >= 2

(* C5: after optimize returns, on every board efficiency_percent equals
   used_area / board_area * 100 (the hundredfold of used_area over
   board_area, board_area being positive); and when every input panel fits
   the board, 0 <= efficiency_percent <= 100 and waste_area >= 0. *)
C5_Efficiency ==
    \A r \in Runs : pc[r] = "done" =>
        \A b \in BoardIds(r) :
            LET e == boards[r][b].efficiency_percent
            IN  /\ e.den = board_area
                /\ e.num = boards[r][b].used_area_mm2
                /\ AllFit(r) =>
                      /\ 0 <= e.num
                      /\ e.num <= e.den
                      /\ boards[r][b].waste_area_mm2 >= 0

(* optimize has returned, every panel fits, a board holds several placements. *)
C5_Witness ==
    \E r \in Runs :
        /\ pc[r] = "done"
        /\ AllFit(r)
        /\ \E b \in BoardIds(r) : Len(boards[r][b].panels) >= 3

(* C6: two runs of optimize on the same panel list with the same board
   width, length and kerf return identical board lists (placements,
   coordinates, cut lists and ids) and identical summaries. *)
C6_Deterministic ==
    (pc[1] = "done" /\ pc[2] = "done" /\ request[1] = request[2]) =>
        boards[1] = boards[2] /\ summary[1] = summary[2]

(* Both runs have returned several boards with placements and cuts. *)
C6_Witness ==
    /\ pc[1] = "done" /\ pc[2] = "done" /\ request[1] = request[2]
    /\ Len(boards[1]) >= 2
    /\ \E b \in BoardIds(1) :
          Len(boards[1][b].panels) >= 2 /\ Len(boards[1][b].cuts) >= 2

(* C7 as stated: under a configuration with board_width <= 0,
   board_length <= 0 or kerf < 0 no board is ever created and optimize
   returns no layout. *)
C7_InvalidConfigRejected ==
    (board_width <= 0 \/ board_length <= 0 \/ kerf < 0) =>
        \A r \in Runs : boards[r] = <<>> /\ pc[r] # "done"

(* The multiples of step from 0 to limit. *)
GridUpTo(limit) == IF limit < 0 THEN {} ELSE {k * step : k \in 0..(limit \div step)}

(* No open board of run r has a feasible grid position for candidate c. *)
NoBoardAdmits(r, c) ==
    \A b \in BoardIds(r) :
        \A x \in GridUpTo(board_width), y \in GridUpTo(board_length) :
            ~CanPlace(boards[r][b], x, y, c.width, c.length)

(* C8: when the next candidate has no feasible position on any open board
   (also when it is wider or longer than the board), the step of optimize
   leaves the open boards as they are, appends a board whose only placement
   is that candidate at (0,0), and goes on to the next candidate. *)
C8_OversizedFallback ==
    [][\A r \in Runs :
          (/\ pc[r] = "pack"
           /\ cursor[r] <= Len(expanded[r])
           /\ NoBoardAdmits(r, expanded[r][cursor[r]])
           /\ <<pc[r], cursor[r], boards[r]>>' # <<pc[r], cursor[r], boards[r]>>)
          => LET c == expanded[r][cursor[r]]
                 n == Len(boards[r])
             IN  /\ Len(boards'[r]) = n + 1
                 /\ SubSeq(boards'[r], 1, n) = boards[r]
                 /\ boards'[r][n + 1].panels =
                       <<[panel_index |-> c.panel_index, x |-> 0, y |-> 0,
                          width |-> c.width, length |-> c.length,
                          label |-> c.label]>>
                 /\ cursor'[r] = cursor[r] + 1
                 /\ pc'[r] = "pack"]_vars

(* The first board was opened for an oversized candidate, holds nothing
   else, and a later candidate has been placed elsewhere. *)
C8_Witness ==
    \E r \in Runs :
        /\ Len(boards[r]) >= 2
        /\ Oversized(boards[r][1].panels[1])
        /\ Len(boards[r][1].panels) = 1
        /\ cursor[r] > Len(expanded[r])

(* C9: for an empty panel list optimize returns zero boards and a summary
   whose total_boards, total_panels, unique_panel_types, total_cuts,
   total_cut_length and total_waste_mm2 are 0 and whose total_waste_percent
   is 0, no division by zero. *)
C9_EmptyRequest ==
    \A r \in Runs : (pc[r] = "done" /\ request[r].panels = <<>>) =>
        /\ boards[r] = <<>>
        /\ Len(summary[r]) = 1
        /\ summary[r][1].total_boards = 0
        /\ summary[r][1].total_panels = 0
        /\ summary[r][1].unique_panel_types = 0
        /\ summary[r][1].total_cuts = 0
        /\ summary[r][1].total_cut_length = 0
        /\ summary[r][1].total_waste_mm2 = 0
        /\ summary[r][1].total_waste_percent.den # 0
        /\ summary[r][1].total_waste_percent.num = 0

(* optimize has returned for an empty panel list. *)
C9_Witness ==
    \E r \in Runs : pc[r] = "done" /\ request[r].panels = <<>>

(* C10 as stated: when the request carries options.kerf, the placements
   optimize returns are at least options.kerf apart on some axis. *)
C10_RequestKerfEnforced ==
    \A r \in Runs : (pc[r] = "done" /\ request[r].options # <<>>) =>
        ~CloserThan(r, request[r].options[1].kerf)

(* C11: when two invocations run with their steps interleaved, each returns
   exactly the boards and the summary it returns when it runs alone. *)
C11_SameAsAlone ==
    \A r \in Runs : pc[r] = "done" =>
        /\ boards[r] = OptimizeAlone(request[r]).boards
        /\ summary[r] = <<OptimizeAlone(request[r]).summary>>

(* Both invocations have returned boards, for different requests. *)
C11_Witness ==
    /\ pc[1] = "done" /\ pc[2] = "done"
    /\ request[1] # request[2]
    /\ Len(boards[1]) >= 2
    /\ Len(boards[2]) >= 1

(* Run r is Scenario A: one 600x400 panel, quantity 1, on the 1220x2440
   board with kerf 3. *)
ScenarioA(r) ==
    /\ request[r] = SameSizeRequest(mm(600), mm(400), 1)
    /\ board_width = mm(1220) /\ board_length = mm(2440) /\ kerf = mm(3)

(* C12: in Scenario A optimize returns exactly 1 board with exactly 1
   placement, at (0,0), and exactly 2 cuts: id 1 vertical at x = 600, id 2
   horizontal at y = 400. *)
C12_ScenarioALayout ==
    \A r \in Runs : (pc[r] = "done" /\ ScenarioA(r)) =>
        /\ Len(boards[r]) = 1
        /\ Len(boards[r][1].panels) = 1
        /\ boards[r][1].panels[1].x = 0
        /\ boards[r][1].panels[1].y = 0
        /\ Len(boards[r][1].cuts) = 2
        /\ LET v == boards[r][1].cuts[1]
               h == boards[r][1].cuts[2]
           IN  /\ v.id = 1 /\ v.orientation = "V"
               /\ v.x1 = mm(600) /\ v.x2 = mm(600)
               /\ h.id = 2 /\ h.orientation = "H"
               /\ h.y1 = mm(400) /\ h.y2 = mm(400)

(* optimize has returned for Scenario A. *)
C12_Witness == \E r \in Runs : pc[r] = "done" /\ ScenarioA(r)

(* The percentage e lies between lo and hi hundredths of a percent. Both
   areas of e are whole square millimetres and e.den is a multiple of 100 of
   them wherever this is used, so the reduced comparison is exact. *)
PercentBetween(e, lo, hi) ==
    LET n == e.num \div mm2(1)
        d == (e.den \div mm2(1)) \div 100
    IN  lo * d <= 100 * n /\ 100 * n <= hi * d

(* C13 as stated: in Scenario A the board has used_area = 240000,
   waste_area = 2537600 and an efficiency_percent between 8.64 and 8.66. *)
C13_ScenarioAStatistics ==
    \A r \in Runs : (pc[r] = "done" /\ ScenarioA(r)) =>
        /\ boards[r][1].used_area_mm2 = mm2(240000)
        /\ boards[r][1].waste_area_mm2 = mm2(2537600)
        /\ PercentBetween(boards[r][1].efficiency_percent, 864, 866)

(* C13 amended: in Scenario A the board has used_area = 240000,
   waste_area = 2736800 (1220 * 2440 - 240000) and an efficiency_percent of
   about 8.06 (between 8.06 and 8.07). *)
C13_ScenarioAStatisticsAmended ==
    \A r \in Runs : (pc[r] = "done" /\ ScenarioA(r)) =>
        /\ boards[r][1].used_area_mm2 = mm2(240000)
        /\ boards[r][1].waste_area_mm2 = mm2(2736800)
        /\ PercentBetween(boards[r][1].efficiency_percent, 806, 807)

(* optimize has returned the one board of Scenario A with its statistics. *)
C13_Witness ==
    \E r \in Runs :
        /\ pc[r] = "done" /\ ScenarioA(r)
        /\ Len(boards[r]) = 1
        /\ boards[r][1].panel_count = 1
        /\ boards[r][1].used_area_mm2 > 0

(* Scenario B: two panels, each exactly 1220x2440 with quantity 1, on a
   1220x2440 board. *)
ScenarioB(r) ==
    /\ request[r] = SameSizeRequest(mm(1220), mm(2440), 2)
    /\ board_width = mm(1220) /\ board_length = mm(2440)

(* C14: in Scenario B optimize returns exactly 2 boards, each holding
   exactly 1 placement at (0,0), and each board has 0 cut segments: every
   edge of the placement lies on a board boundary. *)
C14_ScenarioB ==
    \A r \in Runs : (pc[r] = "done" /\ ScenarioB(r)) =>
        /\ Len(boards[r]) = 2
        /\ \A b \in 1..2 :
              /\ Len(boards[r][b].panels) = 1
              /\ boards[r][b].panels[1].x = 0
              /\ boards[r][b].panels[1].y = 0
              /\ Len(boards[r][b].cuts) = 0
              /\ LET p == boards[r][b].panels[1]
                 IN  /\ p.x + p.width = board_width
                     /\ p.y + p.length = board_length

(* optimize has returned for the two full-board panels, the second of which
   was refused by the first board. *)
C14_Witness ==
    \E r \in Runs :
        /\ pc[r] = "done" /\ ScenarioB(r)
        /\ Len(boards[r]) >= 2
        /\ boards[r][2].panels[1].panel_index = 1

(* Scenario C: ten 300x300 panels with quantity 1 each on a 1220x2440 board
   with kerf 3. *)
ScenarioC(r) ==
    /\ request[r] = SameSizeRequest(mm(300), mm(300), 10)
    /\ board_width = mm(1220) /\ board_length = mm(2440) /\ kerf = mm(3)

(* C15: in Scenario C optimize returns exactly 1 board holding all 10
   placements, and the total number of cuts is greater than 0. *)
C15_ScenarioC ==
    \A r \in Runs : (pc[r] = "done" /\ ScenarioC(r)) =>
        /\ Len(boards[r]) = 1
        /\ Len(boards[r][1].panels) = 10
        /\ boards[r][1].panel_count = 10
        /\ Len(boards[r][1].cuts) > 0
        /\ summary[r][1].total_cuts > 0

(* optimize has returned for the ten panels, and the board holds a panel
   below the first row. *)
C15_Witness ==
    \E r \in Runs :
        /\ pc[r] = "done" /\ ScenarioC(r)
        /\ \E b \in 1..Len(boards[r]) : \E i \in 1..Len(boards[r][b].panels) :
              boards[r][b].panels[i].y > 0

(* The sum of f over the boards of run r *)
RECURSIVE OverBoards(_, _, _)
OverBoards(r, f(_), n) ==
    IF n = 0 THEN 0 ELSE OverBoards(r, f, n - 1) + f(boards[r][n])

CutLengths(board) == SumSeq([j \in 1..Len(board.cuts) |-> board.cuts[j].length])

(* C16: the summary returned by optimize is a reduction of the final
   boards: total_boards is their number, total_panels the number of
   placements over all boards, total_cuts the sum of the boards' cut counts,
   total_cut_length the sum of all cut lengths, total_waste_mm2 the sum of
   the boards' waste areas, and total_waste_percent is total_waste_mm2 over
   the sum of the board areas, times 100 (0 when that sum is 0). *)
C16_SummaryIsReduction ==
    \A r \in Runs : pc[r] = "done" =>
        LET s == summary[r][1]
            n == Len(boards[r])
            waste == OverBoards(r, LAMBDA b : b.waste_area_mm2, n)
            areas == OverBoards(r, LAMBDA b : board_area, n)
        IN  /\ s.total_boards = n
            /\ s.total_panels = OverBoards(r, LAMBDA b : Len(b.panels), n)
            /\ s.total_cuts = OverBoards(r, LAMBDA b : Len(b.cuts), n)
            /\ s.total_cut_length = OverBoards(r, CutLengths, n)
            /\ s.total_waste_mm2 = waste
            /\ IF areas = 0 THEN s.total_waste_percent.num = 0
               ELSE /\ s.total_waste_percent.num = waste
                    /\ s.total_waste_percent.den = areas

(* optimize has returned at least two boards with cuts and waste. *)
C16_Witness ==
    \E r \in Runs :
        /\ pc[r] = "done"
        /\ Len(boards[r]) >= 2
        /\ summary[r][1].total_cuts > 0
        /\ summary[r][1].total_waste_mm2 > 0
        /\ \E b \in 1..Len(boards[r]) : Len(boards[r][b].panels) >= 2

(* The placements of a board, and their edge coordinates *)
PlacementsOf(board) == {board.panels[i] : i \in 1..Len(board.panels)}
EdgesX(board) ==
    {p.x : p \in PlacementsOf(board)} \cup {p.x + p.width : p \in PlacementsOf(board)}
EdgesY(board) ==
    {p.y : p \in PlacementsOf(board)} \cup {p.y + p.length : p \in PlacementsOf(board)}

(* The cuts of one orientation on a board *)
CutsOf(board, o) == {j \in 1..Len(board.cuts) : board.cuts[j].orientation = o}

(* The vertical cuts of board stand at exactly the coordinates X, one cut
   per coordinate, and the horizontal cuts at exactly the coordinates Y. *)
CutsExactlyAt(board, X, Y) ==
    /\ {board.cuts[j].x1 : j \in CutsOf(board, "V")} = X
    /\ Cardinality(CutsOf(board, "V")) = Cardinality(X)
    /\ {board.cuts[j].y1 : j \in CutsOf(board, "H")} = Y
    /\ Cardinality(CutsOf(board, "H")) = Cardinality(Y)

(* C17 as stated: on every finalized board the vertical cuts stand at
   exactly the distinct left and right edges of the placements except 0 and
   board_width, one cut per coordinate, and the horizontal cuts at exactly
   the distinct top and bottom edges except 0 and board_length, boards
   opened by the oversized-candidate fallback included. *)
C17_CutsAtEdgesButBoardEdges ==
    \A r \in Runs : pc[r] = "done" =>
        \A b \in 1..Len(boards[r]) :
            CutsExactlyAt(boards[r][b],
                          EdgesX(boards[r][b]) \ {0, board_width},
                          EdgesY(boards[r][b]) \ {0, board_length})

(* C17 amended: on every finalized board the vertical cuts stand at exactly
   the distinct left and right edges of the placements that lie strictly
   between 0 and board_width, one cut per coordinate, and the horizontal
   cuts at exactly the distinct top and bottom edges strictly between 0 and
   board_length; an edge of a fallback placement on or beyond the board
   boundary yields no cut. *)
C17_CutsAtInteriorEdges ==
    \A r \in Runs : pc[r] = "done" =>
        \A b \in 1..Len(boards[r]) :
            CutsExactlyAt(boards[r][b],
                          {x \in EdgesX(boards[r][b]) : 0 < x /\ x < board_width},
                          {y \in EdgesY(boards[r][b]) : 0 < y /\ y < board_length})

(* optimize has returned a board opened by the fallback whose placement
   reaches beyond the board, and a board with a vertical and a horizontal
   cut at the far edges of its placements. *)
C17_Witness ==
    \E r \in Runs :
        /\ pc[r] = "done"
        /\ \E b \in 1..Len(boards[r]) :
              \E x \in EdgesX(boards[r][b]) : x > board_width
        /\ \E b \in 1..Len(boards[r]) :
              /\ Len(boards[r][b].panels) >= 2
              /\ CutsOf(boards[r][b], "V") # {}
              /\ CutsOf(boards[r][b], "H") # {}

(* C18: on every finalized board the cut ids are 1..n in list order; all
   vertical cuts come before all horizontal cuts, vertical cuts in strictly
   increasing x and horizontal cuts in strictly increasing y; a vertical cut
   spans y from 0 to board_length with length board_length, a horizontal cut
   spans x from 0 to board_width with length board_width. *)
C18_CutOrderAndSpan ==
    \A r \in Runs : pc[r] = "done" =>
        \A b \in 1..Len(boards[r]) :
            LET cuts == boards[r][b].cuts
            IN  /\ \A j \in 1..Len(cuts) : cuts[j].id = j
                /\ \A j \in 1..Len(cuts) : cuts[j].orientation \in {"V", "H"}
                /\ \A i, j \in 1..Len(cuts) : i < j =>
                      /\ ~(cuts[i].orientation = "H" /\ cuts[j].orientation = "V")
                      /\ (cuts[i].orientation = "V" /\ cuts[j].orientation = "V")
                            => cuts[i].x1 < cuts[j].x1
                      /\ (cuts[i].orientation = "H" /\ cuts[j].orientation = "H")
                            => cuts[i].y1 < cuts[j].y1
                /\ \A j \in 1..Len(cuts) :
                      IF cuts[j].orientation = "V"
                      THEN /\ cuts[j].x2 = cuts[j].x1
                           /\ cuts[j].y1 = 0 /\ cuts[j].y2 = board_length
                           /\ cuts[j].length = board_length
                      ELSE /\ cuts[j].y2 = cuts[j].y1
                           /\ cuts[j].x1 = 0 /\ cuts[j].x2 = board_width
                           /\ cuts[j].length = board_width

(* optimize has returned a board with at least two vertical and two
   horizontal cuts. *)
C18_Witness ==
    \E r \in Runs :
        /\ pc[r] = "done"
        /\ \E b \in 1..Len(boards[r]) :
              /\ Cardinality(CutsOf(boards[r][b], "V")) >= 2
              /\ Cardinality(CutsOf(boards[r][b], "H")) >= 2

(* The placements over all boards of run r that carry panel_index idx, as
   pairs of board and position *)
PlacementsOfPanel(r, idx) ==
    {bj \in {<<b, j>> : b \in 1..Len(boards[r]), j \in 1..MaxPanels * MaxQuantity} :
        /\ bj[2] <= Len(boards[r][bj[1]].panels)
        /\ boards[r][bj[1]].panels[bj[2]].panel_index = idx}

(* C19: for every input panel at index i exactly quantity_i placements over
   all boards carry panel_index i; each of them has panel i's width and
   length, not swapped, and panel i's label, or the default "Panel i+1"
   when the label is empty. No placement carries any other index. *)
C19_Provenance ==
    \A r \in Runs : pc[r] = "done" =>
        LET ps == request[r].panels
        IN  /\ \A i \in 1..Len(ps) :
                  /\ Cardinality(PlacementsOfPanel(r, i - 1)) = ps[i].quantity
                  /\ \A bj \in PlacementsOfPanel(r, i - 1) :
                        LET q == boards[r][bj[1]].panels[bj[2]]
                        IN  /\ q.width = ps[i].width
                            /\ q.length = ps[i].length
                            /\ q.label = IF ps[i].label \in {<<>>, <<"">>}
                                         THEN <<"Panel", i>>
                                         ELSE ps[i].label
            /\ \A b \in 1..Len(boards[r]) : \A j \in 1..Len(boards[r][b].panels) :
                  boards[r][b].panels[j].panel_index \in 0..(Len(ps) - 1)

(* optimize has returned for a request with a labelled panel and a panel
   without label, of different areas, the larger one later in the request,
   and one of them with two copies. *)
C19_Witness ==
    \E r \in Runs :
        /\ pc[r] = "done"
        /\ Len(request[r].panels) >= 2
        /\ request[r].panels[1].label = <<>>
        /\ request[r].panels[2].label = <<"Door">>
        /\ request[r].panels[1].width < request[r].panels[2].width
        /\ request[r].panels[1].quantity >= 2
        /\ boards[r][1].panels[1].label = <<"Door">>
        /\ \E b \in 1..Len(boards[r]) : \E j \in 1..Len(boards[r][b].panels) :
              boards[r][b].panels[j].label = <<"Panel", 1>>

(* Some panel of the request is larger than the board in both dimensions. *)
LargerInBoth(req) ==
    \E i \in 1..Len(req.panels) :
        req.panels[i].width > board_width /\ req.panels[i].length > board_length

(* C20: process_optimization rejects with HTTP 400, before optimize_cutting
   is called, every request with a panel larger than the board in both
   dimensions (width > board width and length > board length): its only
   step is the rejection, and nothing of the request reaches the
   optimizer. *)
C20_UpstreamRejection ==
    [][\A r \in Runs : LargerInBoth(request[r]) =>
          /\ (pc[r] = "received" /\ pc'[r] # pc[r]) => pc'[r] = "raised400"
          /\ pc'[r] \in {"received", "raised400", "idle"}
          /\ expanded'[r] = <<>> /\ boards'[r] = <<>>]_vars

(* A request with a panel larger than the board in both dimensions, one
   that only the second test of the size validation catches, has been
   rejected. *)
C20_Witness ==
    \E r \in Runs :
        /\ pc[r] = "raised400"
        /\ LargerInBoth(request[r])
        /\ \A i \in 1..Len(request[r].panels) : ~TooWide(request[r].panels[i])

(* The candidates of run r in front of its loop position that carry
   panel_index idx *)
TakenOfPanel(r, idx) ==
    {k \in 1..(cursor[r] - 1) : k <= Len(expanded[r]) /\ expanded[r][k].panel_index = idx}

(* C21: the candidates are placed in non-increasing order of area, and
   candidates of equal area in their expansion order (ascending panel
   index): the list the loop walks through is so ordered, and at every
   moment the placements made are those of the candidates in front of the
   loop position. *)
C21_PlacedInStableAreaOrder ==
    \A r \in Runs : pc[r] \in {"pack", "stats", "done"} =>
        /\ \A i, j \in 1..Len(expanded[r]) : i < j =>
              /\ expanded[r][i].area >= expanded[r][j].area
              /\ expanded[r][i].area = expanded[r][j].area
                    => expanded[r][i].panel_index <= expanded[r][j].panel_index
        /\ \A k \in 1..Len(expanded[r]) :
              expanded[r][k].area = expanded[r][k].width * expanded[r][k].length
        /\ \A idx \in 0..(MaxPanels - 1) :
              Cardinality(PlacementsOfPanel(r, idx)) = Cardinality(TakenOfPanel(r, idx))

(* The loop has placed the first of two panels of equal area and different
   shape while the second, later in the request, still waits. *)
C21_Witness ==
    \E r \in Runs :
        /\ pc[r] = "pack"
        /\ Len(request[r].panels) >= 2
        /\ LET a == request[r].panels[1]
               b == request[r].panels[2]
           IN  /\ a.width * a.length = b.width * b.length
               /\ a.width # b.width
        /\ cursor[r] = 2
        /\ boards[r][1].panels[1].panel_index = 0

(* The feasible grid points of a board for candidate c: x and y multiples
   of the grid step with 0 <= x <= board_width - width and
   0 <= y <= board_length - length. *)
FeasibleGridPoints(board, c) ==
    {xy \in GridUpTo(board_width - c.width) \X GridUpTo(board_length - c.length) :
        CanPlace(board, xy[1], xy[2], c.width, c.length)}

(* xy is first in row-major order among the points of F. *)
FirstRowMajor(xy, F) ==
    /\ xy \in F
    /\ \A o \in F : xy[2] < o[2] \/ (xy[2] = o[2] /\ xy[1] <= o[1])

(* C22: for the candidate the loop is about to place and every open board,
   _find_position returns the feasible grid point with the smallest y and,
   among those, the smallest x, and returns no position exactly when no
   grid point is feasible. *)
C22_FirstFeasibleGridPoint ==
    \A r \in Runs : (pc[r] = "pack" /\ cursor[r] <= Len(expanded[r])) =>
        \A b \in 1..Len(boards[r]) :
            LET c == expanded[r][cursor[r]]
                F == FeasibleGridPoints(boards[r][b], c)
                pos == FindPosition(boards[r][b], c)
            IN  /\ (pos = <<>>) <=> (F = {})
                /\ pos # <<>> => FirstRowMajor(pos, F)

(* The loop is about to place a candidate for which a board has feasible
   points in several rows and columns, none of them in the first row's
   first column, and another board has none. *)
C22_Witness ==
    \E r \in Runs :
        /\ pc[r] = "pack" /\ cursor[r] <= Len(expanded[r])
        /\ \E b \in 1..Len(boards[r]) :
              LET F == FeasibleGridPoints(boards[r][b], expanded[r][cursor[r]])
              IN  /\ <<0, 0>> \notin F
                  /\ \E p, q \in F : p[1] # q[1] /\ p[2] # q[2] /\ p[1] < q[1] /\ p[2] > q[2]
        /\ \E b \in 1..Len(boards[r]) :
              FindPosition(boards[r][b], expanded[r][cursor[r]]) = <<>>

(* The gaps between the rectangle (x, y, w, l) and placement p along the
   two axes, in both directions *)
Gaps(p, x, y, w, l) ==
    {p.x - (x + w), x - (p.x + p.width), p.y - (y + l), y - (p.y + p.length)}

(* The rectangle (x, y, w, l) lies fully within the board. *)
WithinBoard(x, y, w, l) ==
    x >= 0 /\ y >= 0 /\ x + w <= board_width /\ y + l <= board_length

(* The grid points at which the loop's next candidate is tried on board b
   of run r, with the board and the candidate *)
Trials(r) ==
    {[board |-> boards[r][b], c |-> expanded[r][cursor[r]], x |-> x, y |-> y] :
        b \in 1..Len(boards[r]),
        x \in GridUpTo(board_width), y \in GridUpTo(board_length)}

(* C23 as stated: _can_place is true iff the rectangle lies fully within the
   board and for every placement of the board the gap exceeds the kerf
   (strictly) on at least one axis; a gap of exactly the kerf on the only
   separating axis is not feasible. *)
C23_FeasibleIffGapExceedsKerf ==
    \A r \in Runs : (pc[r] = "pack" /\ cursor[r] <= Len(expanded[r])) =>
        \A t \in Trials(r) :
            CanPlace(t.board, t.x, t.y, t.c.width, t.c.length)
            <=> /\ WithinBoard(t.x, t.y, t.c.width, t.c.length)
                /\ \A p \in PlacementsOf(t.board) :
                      \E g \in Gaps(p, t.x, t.y, t.c.width, t.c.length) : g > kerf

(* C23 amended: _can_place is true iff the rectangle lies fully within the
   board and for every placement of the board the gap is at least the kerf
   (greater than or equal to k) on at least one axis; a gap of exactly the
   kerf on the only separating axis is feasible, any smaller gap is not. *)
C23_FeasibleIffGapAtLeastKerf ==
    \A r \in Runs : (pc[r] = "pack" /\ cursor[r] <= Len(expanded[r])) =>
        \A t \in Trials(r) :
            CanPlace(t.board, t.x, t.y, t.c.width, t.c.length)
            <=> /\ WithinBoard(t.x, t.y, t.c.width, t.c.length)
                /\ \A p \in PlacementsOf(t.board) :
                      \E g \in Gaps(p, t.x, t.y, t.c.width, t.c.length) : g >= kerf

(* Under a positive kerf the loop's next candidate is feasible at a grid
   point whose largest gap to a placement of the board is exactly the kerf,
   and infeasible at another point within the board. *)
C23_Witness ==
    \E r \in Runs :
        /\ pc[r] = "pack" /\ cursor[r] <= Len(expanded[r])
        /\ kerf > 0
        /\ \E t \in Trials(r) :
              /\ CanPlace(t.board, t.x, t.y, t.c.width, t.c.length)
              /\ \E p \in PlacementsOf(t.board) :
                    /\ kerf \in Gaps(p, t.x, t.y, t.c.width, t.c.length)
                    /\ \A g \in Gaps(p, t.x, t.y, t.c.width, t.c.length) : g <= kerf
        /\ \E t \in Trials(r) :
              /\ WithinBoard(t.x, t.y, t.c.width, t.c.length)
              /\ ~CanPlace(t.board, t.x, t.y, t.c.width, t.c.length)

(* The open boards of run r with a feasible grid point for candidate c *)
BoardsWithRoom(r, c) ==
    {b \in 1..Len(boards[r]) : FeasibleGridPoints(boards[r][b], c) # {}}

(* s is t without its last element. *)
AllButLast(s, t) == Len(t) = Len(s) + 1 /\ SubSeq(t, 1, Len(s)) = s

(* C24: first fit in creation order.  In the step that handles a candidate,
   the candidate goes on the lowest-numbered open board that has a feasible
   grid point for it, no board in front of that one has any, and the other
   boards stay as they are; a board is appended only when no open board has
   a feasible point.  No step reorders or removes boards. *)
C24_FirstFit ==
    [][\A r \in Runs :
          /\ Len(boards'[r]) >= Len(boards[r])
          /\ \A b \in 1..Len(boards[r]) :
                /\ boards'[r][b].board_number = boards[r][b].board_number
                /\ boards[r][b].board_number = b
                /\ SubSeq(boards'[r][b].panels, 1, Len(boards[r][b].panels))
                      = boards[r][b].panels
          /\ (pc[r] = "pack" /\ cursor'[r] = cursor[r] + 1) =>
                LET c == expanded[r][cursor[r]]
                    A == BoardsWithRoom(r, c)
                IN  IF A = {}
                    THEN /\ AllButLast(boards[r], boards'[r])
                         /\ Len(boards'[r][Len(boards'[r])].panels) = 1
                    ELSE /\ Len(boards'[r]) = Len(boards[r])
                         /\ \E j \in A :
                               /\ \A i \in 1..(j - 1) : i \notin A
                               /\ AllButLast(boards[r][j].panels, boards'[r][j].panels)
                               /\ boards'[r][j].panels[Len(boards'[r][j].panels)].panel_index
                                     = c.panel_index
                               /\ \A i \in 1..Len(boards[r]) :
                                     i # j => boards'[r][i] = boards[r][i]]_vars

(* Two boards are open; the first holds a placement smaller than the
   second board's first one, which therefore went on the first board after
   the second was opened, although the second board has room for it too. *)
C24_Witness ==
    \E r \in Runs :
        /\ Len(boards[r]) >= 2
        /\ \E i \in 1..Len(boards[r][1].panels) :
              LET p == boards[r][1].panels[i]
              IN  /\ p.width * p.length
                        < boards[r][2].panels[1].width * boards[r][2].panels[1].length
                  /\ FeasibleGridPoints(boards[r][2], p) # {}

(* C25: whenever kerf >= 0, in every state every two distinct placements on
   one board are a gap of at least the kerf apart along x or along y, and
   their rectangles do not overlap; so also on a board opened by the
   fallback, for the pieces added next to the oversized one. *)
C25_AlwaysKerfApart ==
    kerf >= 0 =>
        \A r \in Runs : \A b \in 1..Len(boards[r]) :
            \A i, j \in 1..Len(boards[r][b].panels) : i # j =>
                LET p == boards[r][b].panels[i]
                    q == boards[r][b].panels[j]
                IN  /\ \E g \in Gaps(p, q.x, q.y, q.width, q.length) : g >= kerf
                    /\ NoCommonInterior(Rect(p), Rect(q))

(* Under a positive kerf, while the loop is still running, a board opened
   for an oversized candidate holds a second piece. *)
C25_Witness ==
    \E r \in Runs :
        /\ pc[r] = "pack" /\ kerf > 0
        /\ \E b \in 1..Len(boards[r]) :
              /\ Oversized(boards[r][b].panels[1])
              /\ Len(boards[r][b].panels) >= 2

(* The sum of width * length over the placements of a board *)
PlacedArea(board) ==
    SumSeq([i \in 1..Len(board.panels) |->
                board.panels[i].width * board.panels[i].length])

(* C26: in every state reached during packing, for every board panel_count
   is the number of placements in its list, at least 1, and used_area is the
   sum of width * length over those placements; a step that places a
   candidate changes one board only. *)
C26_Bookkeeping ==
    [][\A r \in Runs :
          /\ \A b \in 1..Len(boards'[r]) :
                /\ boards'[r][b].panel_count = Len(boards'[r][b].panels)
                /\ boards'[r][b].panel_count >= 1
                /\ boards'[r][b].used_area_mm2 = PlacedArea(boards'[r][b])
          /\ (pc[r] = "pack" /\ cursor'[r] = cursor[r] + 1) =>
                Cardinality({b \in 1..Len(boards[r]) : boards'[r][b] # boards[r][b]})
                   <= IF Len(boards'[r]) = Len(boards[r]) THEN 1 ELSE 0]_vars

(* While the loop is running, two boards are open, one of them with two
   placements of different sizes. *)
C26_Witness ==
    \E r \in Runs :
        /\ pc[r] = "pack"
        /\ Len(boards[r]) >= 2
        /\ \E b \in 1..Len(boards[r]) :
              /\ boards[r][b].panel_count >= 2
              /\ boards[r][b].panels[1].width # boards[r][b].panels[2].width

(* C27: the size validation lets through to optimize_cutting only requests
   whose panels all fit the board (a panel with width > board width or
   length > board length is rejected with HTTP 400), so no layout returned
   holds a placement that extends beyond the board. *)
C27_ValidationGuaranteesFit ==
    \A r \in Runs : pc[r] \in {"start", "pack", "stats", "done"} =>
        /\ \A i \in 1..Len(request[r].panels) : ~Oversized(request[r].panels[i])
        /\ \A b \in 1..Len(boards[r]) : \A i \in 1..Len(boards[r][b].panels) :
              InBounds(boards[r][b].panels[i])

(* C28: create_order stores an order and schedules its invoice only after
   process_optimization has succeeded.  When the request is in client-supply
   mode and client_board_qty is smaller than the number of boards required,
   the call ends with HTTP 400, ORDER_STORE is left as it is and no invoice
   task is added; the store and the tasks change only in the step of a call
   whose request is not short of boards, and then by that call's order. *)
C28_OrderOnlyAfterSuccess ==
    [][/\ \A r \in Runs :
            (pc[r] = "done" /\ pc'[r] # pc[r] /\ ClientBoardsShort(r)) =>
                /\ pc'[r] = "raised400"
                /\ ORDER_STORE' = ORDER_STORE
                /\ background_tasks' = background_tasks
       /\ (ORDER_STORE' # ORDER_STORE \/ background_tasks' # background_tasks) =>
             \E r \in Runs :
                /\ pc[r] = "done" /\ pc'[r] = "created"
                /\ ~ClientBoardsShort(r)
                /\ ~SizeValidationFails(request[r])
                /\ DOMAIN ORDER_STORE' = DOMAIN ORDER_STORE \cup {ReportId(r)}
                /\ background_tasks' \ background_tasks
                      \subseteq {<<"send_invoice_for_order", ReportId(r)>>}
       /\ \A r \in Runs :
             pc'[r] = "raised400" =>
                /\ ReportId(r) \notin DOMAIN ORDER_STORE'
                /\ <<"send_invoice_for_order", ReportId(r)>> \notin background_tasks']_vars

(* A call in client-supply mode that brought too few boards has ended with
   HTTP 400 after the optimizer returned, while the other call's order is
   stored. *)
C28_Witness ==
    \E r, q \in Runs :
        /\ pc[r] = "raised400"
        /\ summary[r] # <<>>
        /\ request[r].supply.client_supply
        /\ SuppliedBoards(request[r]) < summary[r][1].total_boards
        /\ pc[q] = "created"
        /\ DOMAIN ORDER_STORE = {ReportId(q)}

(* The CheckoutRequestID of the callback is registered. *)
Registered(stk) == stk.CheckoutRequestID \in DOMAIN MPESA_CHECKOUT_TO_ORDER

(* The step leaves every order but order_id as it is, and removes none. *)
OnlyOrderChanged(order_id) ==
    /\ DOMAIN ORDER_STORE' = DOMAIN ORDER_STORE
    /\ \A o \in DOMAIN ORDER_STORE : o # order_id => ORDER_STORE'[o] = ORDER_STORE[o]

(* C29: over any sequence of create_order, mpesa_initiate and
   mpesa_stk_callback events, an order becomes 'paid' only in the step of a
   callback with ResultCode 0 for a CheckoutRequestID registered for that
   order; a callback with a malformed body or an unregistered
   CheckoutRequestID changes no order; a callback with a non-zero ResultCode
   sets only the mapped order to 'failed', with the result description as
   status_reason. *)
C29_PaidOnlyByRegisteredSuccess ==
    [][/\ \A o \in DOMAIN ORDER_STORE' :
            (/\ ORDER_STORE'[o].status = "paid"
             /\ ~(o \in DOMAIN ORDER_STORE /\ ORDER_STORE[o].status = "paid"))
            => \E stk \in StkCallback :
                  /\ MpesaStkCallback(<<stk>>)
                  /\ stk.ResultCode = 0
                  /\ Registered(stk)
                  /\ MPESA_CHECKOUT_TO_ORDER[stk.CheckoutRequestID] = o
       /\ \A payload \in Payloads : MpesaStkCallback(payload) =>
             IF payload = <<>> \/ ~Registered(payload[1])
             THEN ORDER_STORE' = ORDER_STORE
             ELSE LET stk == payload[1]
                      o == MPESA_CHECKOUT_TO_ORDER[stk.CheckoutRequestID]
                  IN  /\ OnlyOrderChanged(o)
                      /\ stk.ResultCode # 0 =>
                            /\ ORDER_STORE'[o].status = "failed"
                            /\ ORDER_STORE'[o].status_reason = <<ResultDesc(stk)>>]_vars

(* Both orders are stored and have a CheckoutRequestID each; one is paid
   with its receipt, the other failed with the result description. *)
C29_Witness ==
    \E o, q \in DOMAIN ORDER_STORE :
        /\ o # q
        /\ ORDER_STORE[o].status = "paid"
        /\ ORDER_STORE[o].mpesa_receipt # <<>>
        /\ ORDER_STORE[q].status = "failed"
        /\ ORDER_STORE[q].status_reason = <<"Request cancelled by user">>
        /\ \E c, d \in DOMAIN MPESA_CHECKOUT_TO_ORDER :
              MPESA_CHECKOUT_TO_ORDER[c] = o /\ MPESA_CHECKOUT_TO_ORDER[d] = q

(* C30: paid is terminal for the payment flow.  Once an order's status is
   'paid', no later step (a failure callback for another STK push of the
   same order, for instance) changes its status or its mpesa_receipt, and
   notify_after_payment for it stays accepted. *)
C30_PaidIsTerminal ==
    [][\A o \in DOMAIN ORDER_STORE :
          ORDER_STORE[o].status = "paid" =>
              /\ o \in DOMAIN ORDER_STORE'
              /\ ORDER_STORE'[o].status = "paid"
              /\ ORDER_STORE'[o].mpesa_receipt = ORDER_STORE[o].mpesa_receipt
              /\ NotifyAccepted(o)']_vars

====
